---- MODULE Spec2Model ----
(***************************************************************************)
(* Model of make_data_privacy_rag_web_app.py: the validators, the          *)
(* persistence layer (get_articles_data, save_article_data) and the        *)
(* top-to-bottom evaluation of the form flow that Streamlit re-runs on     *)
(* every user interaction.                                                 *)
(*                                                                         *)
(* Python values are tagged pairs <<tag, payload>>:                        *)
(*   <<"None", <<>>>>            None                                      *)
(*   <<"bool", b>>               True / False                              *)
(*   <<"num", n>>                an int                                    *)
(*   <<"float", f>>              a float that is no finite number: f is    *)
(*                               "nan", "inf" or "-inf"                    *)
(*   <<"str", s>>                a str; s is a sequence of atoms (chunks   *)
(*                               of characters; " " is whitespace)         *)
(*   <<"list", <<v1, ..., vn>>>> a list                                    *)
(*   <<"dict", <<<<k1, v1>>, ...>>>>  a dict in insertion order, the keys  *)
(*                               being atom sequences (str keys)           *)
(* A text handed to json.loads is a sequence of lexical tokens             *)
(* <<kind, payload>>.                                                      *)
(***************************************************************************)
EXTENDS Integers, Sequences, FiniteSets, TLC

VARIABLES
    call,        \* pure-function runs: the function applied last ("none" at start)
    arg,         \* its argument
    out,         \* its outcome
    topic,       \* text_input  key='input_topic'
    categories,  \* data_editor(['Names of ...'])
    raw1,        \* text_area   key='input_article_data'
    raw2,        \* text_area   key='input_qa_data'
    annotated,   \* whether the user filled in the annotation table
    metadata,    \* data_editor({'LLM': ''})
    pressed,     \* button('Submit') in the evaluation that produced view
    view,        \* what the last evaluation of the script rendered and did
    dir,         \* the working directory: file name -> file content
    written      \* history: every save_article_data call, in order

vars == <<call, arg, out, topic, categories, raw1, raw2, annotated, metadata,
          pressed, view, dir, written>>

----------------------------------------------------------------------------
(* Python values *)

None == <<"None", <<>>>>
PyFalse == <<"bool", FALSE>>
PyTrue == <<"bool", TRUE>>
Num(n) == <<"num", n>>
Float(f) == <<"float", f>>
Str(s) == <<"str", s>>
List(xs) == <<"list", xs>>
Dict(ms) == <<"dict", ms>>

tag(v) == v[1]
val(v) == v[2]

\* bool(v): Python truthiness
truthy(v) ==
    CASE tag(v) = "None" -> FALSE
      [] tag(v) = "bool" -> val(v)
      [] tag(v) = "num"  -> val(v) # 0
      [] tag(v) = "float" -> TRUE          \* nan and the infinities are not 0.0
      [] OTHER           -> Len(val(v)) > 0

IsSpace(a) == a = " "

\* str.strip() on the atoms of a str
RECURSIVE lstrip(_)
lstrip(s) == IF s # <<>> /\ IsSpace(Head(s)) THEN lstrip(Tail(s)) ELSE s

RECURSIVE rstrip(_)
rstrip(s) ==
    IF s # <<>> /\ IsSpace(s[Len(s)]) THEN rstrip(SubSeq(s, 1, Len(s) - 1)) ELSE s

strip(s) == rstrip(lstrip(s))

\* needle in haystack, both str: a contiguous run of atoms
substring(needle, hay) ==
    \E i \in 1..(Len(hay) - Len(needle) + 1) :
        SubSeq(hay, i, i + Len(needle) - 1) = needle

DictKeys(d) == {val(d)[i][1] : i \in 1..Len(val(d))}

DictGet(d, k) ==
    LET i == CHOOSE j \in 1..Len(val(d)) : val(d)[j][1] = k IN val(d)[i][2]

\* d[k] = v: an existing key keeps its place
DictSet(ms, k, v) ==
    IF \E i \in 1..Len(ms) : ms[i][1] = k
    THEN [i \in 1..Len(ms) |-> IF ms[i][1] = k THEN <<k, v>> ELSE ms[i]]
    ELSE Append(ms, <<k, v>>)

\* whether `key in v` raises TypeError (v is not a container)
in_raises(v) == tag(v) \in {"None", "bool", "num", "float"}

\* key in v, for a str key and a container v
contains(v, key) ==
    CASE tag(v) = "dict" -> key \in DictKeys(v)
      [] tag(v) = "list" -> \E i \in 1..Len(val(v)) : val(v)[i] = Str(key)
      [] tag(v) = "str"  -> substring(key, val(v))
      [] OTHER           -> FALSE

----------------------------------------------------------------------------
(* json.loads / json.dumps over token sequences *)

Punct(p) == <<"punct", p>>
Word(w) == <<"word", w>>
StringTok(s) == <<"string", s>>
NumberTok(n) == <<"number", n>>

ParseFail == [ok |-> FALSE, value |-> None, next |-> 0]
Parsed(v, n) == [ok |-> TRUE, value |-> v, next |-> n]

IsPunct(toks, i, p) == i <= Len(toks) /\ toks[i] = Punct(p)

\* the bare words json.loads accepts besides null, true and false, and the
\* float each one stands for
parse_constant == ("NaN" :> "nan") @@ ("Infinity" :> "inf") @@ ("-Infinity" :> "-inf")

\* how json.dumps writes such a float
float_word(f) == CHOOSE w \in DOMAIN parse_constant : parse_constant[w] = f

RECURSIVE parse_value(_, _)
RECURSIVE parse_elements(_, _, _)
RECURSIVE parse_members(_, _, _)
RECURSIVE elements_after(_, _, _)
RECURSIVE members_after(_, _, _, _)

\* the rest of a list once its element at i is parsed (e)
elements_after(toks, e, acc) ==
    IF ~e.ok THEN ParseFail
    ELSE IF IsPunct(toks, e.next, "]") THEN Parsed(List(Append(acc, e.value)), e.next + 1)
    ELSE IF IsPunct(toks, e.next, ",") THEN parse_elements(toks, e.next + 1, Append(acc, e.value))
    ELSE ParseFail

parse_elements(toks, i, acc) ==
    CHOOSE r \in {elements_after(toks, e, acc) : e \in {parse_value(toks, i)}} : TRUE

\* the rest of an object once the value m of key k is parsed
members_after(toks, k, m, acc) ==
    IF ~m.ok THEN ParseFail
    ELSE IF IsPunct(toks, m.next, "}") THEN Parsed(Dict(DictSet(acc, k, m.value)), m.next + 1)
    ELSE IF IsPunct(toks, m.next, ",")
         THEN parse_members(toks, m.next + 1, DictSet(acc, k, m.value))
    ELSE ParseFail

parse_members(toks, i, acc) ==
    IF ~(i <= Len(toks) /\ toks[i][1] = "string" /\ IsPunct(toks, i + 1, ":"))
    THEN ParseFail
    ELSE CHOOSE r \in {members_after(toks, toks[i][2], m, acc) :
                         m \in {parse_value(toks, i + 2)}} : TRUE

parse_value(toks, i) ==
    IF i > Len(toks) THEN ParseFail
    ELSE LET kind == toks[i][1]
             p == toks[i][2]
         IN
         CASE kind = "string" -> Parsed(Str(p), i + 1)
           [] kind = "number" -> Parsed(Num(p), i + 1)
           [] kind = "word" ->
                IF p = "null" THEN Parsed(None, i + 1)
                ELSE IF p = "true" THEN Parsed(PyTrue, i + 1)
                ELSE IF p = "false" THEN Parsed(PyFalse, i + 1)
                ELSE IF p \in DOMAIN parse_constant
                     THEN Parsed(Float(parse_constant[p]), i + 1)
                ELSE ParseFail
           [] kind = "punct" ->
                IF p = "[" THEN
                    IF IsPunct(toks, i + 1, "]") THEN Parsed(List(<<>>), i + 2)
                    ELSE parse_elements(toks, i + 1, <<>>)
                ELSE IF p = "{" THEN
                    IF IsPunct(toks, i + 1, "}") THEN Parsed(Dict(<<>>), i + 2)
                    ELSE parse_members(toks, i + 1, <<>>)
                ELSE ParseFail
           [] OTHER -> ParseFail

\* json.loads(raw): the value, or raised (JSONDecodeError; also on trailing data)
loads_result(raw, r) ==
    IF r.ok /\ r.next = Len(raw) + 1
    THEN [raised |-> FALSE, value |-> r.value]
    ELSE [raised |-> TRUE, value |-> None]

json_loads(raw) ==
    CHOOSE x \in {loads_result(t, parse_value(t, 1)) : t \in {raw}} : TRUE

RECURSIVE json_dumps(_)
RECURSIVE dumps_elements(_, _)
RECURSIVE dumps_members(_, _)

dumps_elements(xs, i) ==
    IF i > Len(xs) THEN <<>>
    ELSE (IF i > 1 THEN <<Punct(",")>> ELSE <<>>) \o json_dumps(xs[i])
         \o dumps_elements(xs, i + 1)

dumps_members(ms, i) ==
    IF i > Len(ms) THEN <<>>
    ELSE (IF i > 1 THEN <<Punct(",")>> ELSE <<>>)
         \o <<StringTok(ms[i][1]), Punct(":")>> \o json_dumps(ms[i][2])
         \o dumps_members(ms, i + 1)

json_dumps(v) ==
    CASE tag(v) = "None" -> <<Word("null")>>
      [] tag(v) = "bool" -> <<Word(IF val(v) THEN "true" ELSE "false")>>
      [] tag(v) = "num"  -> <<NumberTok(val(v))>>
      [] tag(v) = "float" -> <<Word(float_word(val(v)))>>
      [] tag(v) = "str"  -> <<StringTok(val(v))>>
      [] tag(v) = "list" -> <<Punct("[")>> \o dumps_elements(val(v), 1) \o <<Punct("]")>>
      [] tag(v) = "dict" -> <<Punct("{")>> \o dumps_members(val(v), 1) \o <<Punct("}")>>

----------------------------------------------------------------------------
(* The validators.  An outcome is what a call did: whether it raised, what *)
(* it returned, and the messages it passed to streamlit's error().         *)

MsgAtLeast4 == "You must choose at least 4 categories"
MsgAtMost7 == "You must choose at most 7 categories"
MsgInvalidJSON == "You must provide a valid JSON here."
MsgArticleText == "You must provide an article text."
MsgMapping == "You must provide a sensitive_category_to_instances mapping."
MsgNotAList == "You must provide a list of Q&A pairs."
MsgQAPair == "Every Q&A pair must have a \"question_text\" and an \"answer_text\" entry."
MsgLLM == "You must provide the LLM name."

Returned(v) == [raised |-> FALSE, ret |-> v, errors |-> <<>>]
Failed(msg) == [raised |-> FALSE, ret |-> PyFalse, errors |-> <<msg>>]
Raised == [raised |-> TRUE, ret |-> None, errors |-> <<>>]

MinCategories == 4
MaxCategories == 7

\* clean_categories with the x.strip() of the comprehension's head left out
clean_categories_unstripped(cs) ==
    LET kept == {i \in 1..Len(cs) : truthy(cs[i]) /\ truthy(Str(strip(val(cs[i]))))}
    IN {val(cs[i]) : i \in kept}

\* [x.strip() for x in categories if x and x.strip()], then set(...)
clean_categories(cs) ==
    LET kept == {i \in 1..Len(cs) : truthy(cs[i]) /\ truthy(Str(strip(val(cs[i]))))}
    IN {strip(val(cs[i])) : i \in kept}

check_categories(cs) ==
    LET n == Cardinality(clean_categories(cs)) IN
    IF n < MinCategories THEN Failed(MsgAtLeast4)
    ELSE IF n > MaxCategories THEN Failed(MsgAtMost7)
    ELSE Returned(PyTrue)

KeyArticleText == <<"article_text">>
KeyMapping == <<"sensitive_category_to_instances">>
KeyQuestion == <<"question_text">>
KeyAnswer == <<"answer_text">>
KeyLLM == <<"LLM">>

\* check_article_data with its two key checks in the other order
check_article_data_swapped(raw) ==
    LET p == json_loads(raw) IN
    IF p.raised THEN Failed(MsgInvalidJSON)
    ELSE IF in_raises(p.value) THEN Raised
    ELSE IF ~contains(p.value, KeyMapping) THEN Failed(MsgMapping)
    ELSE IF ~contains(p.value, KeyArticleText) THEN Failed(MsgArticleText)
    ELSE Returned(p.value)

check_article_data(raw) ==
    LET p == json_loads(raw) IN
    IF p.raised THEN Failed(MsgInvalidJSON)
    ELSE IF in_raises(p.value) THEN Raised
    ELSE IF ~contains(p.value, KeyArticleText) THEN Failed(MsgArticleText)
    ELSE IF ~contains(p.value, KeyMapping) THEN Failed(MsgMapping)
    ELSE Returned(p.value)

\* 'question_text' in x and 'answer_text' in x
has_qa_keys(x) == contains(x, KeyQuestion) /\ contains(x, KeyAnswer)

check_qa_data(raw) ==
    LET p == json_loads(raw) IN
    IF p.raised THEN Failed(MsgInvalidJSON)
    ELSE IF tag(p.value) # "list" THEN Failed(MsgNotAList)
    ELSE LET xs == val(p.value) IN
         IF \E i \in 1..Len(xs) : in_raises(xs[i]) THEN Raised
         ELSE IF ~(\A i \in 1..Len(xs) : has_qa_keys(xs[i])) THEN Failed(MsgQAPair)
         ELSE Returned(p.value)

check_metadata(data) ==
    IF ~(KeyLLM \in DictKeys(data) /\ truthy(DictGet(data, KeyLLM)))
    THEN Failed(MsgLLM)
    ELSE Returned(data)

----------------------------------------------------------------------------
(* The persistence layer.  A directory is a function from file names (str  *)
(* atoms) to file contents (texts).                                        *)

Digits == <<"0", "1", "2", "3", "4", "5", "6", "7", "8", "9">>

\* str(n) of an int
RECURSIVE str_digits(_)
str_digits(n) ==
    IF n < 10 THEN <<Digits[n + 1]>>
    ELSE str_digits(n \div 10) \o <<Digits[(n % 10) + 1]>>

str_int(n) == IF n < 0 THEN <<"-">> \o str_digits(-n) ELSE str_digits(n)

NameStem == <<"annotated-synthetic-article">>
NameSuffix == <<".json">>

RandLo == 0
RandHi == 10000

\* random.randint(a, b) with one value too many at the top
randint_wide(a, b) == a..(b + 1)

\* random.randint(a, b): any integer N with a <= N <= b
randint(a, b) == a..b

\* 'annotated-synthetic-article' + str(n) + '.json'
file_name(n) == NameStem \o str_int(n) \o NameSuffix

\* save_article_data writing str(data), which is no JSON text
save_article_data_repr(d, data, n) ==
    (file_name(n) :> <<Word("{'article_data': ...}")>>) @@ d

\* open(name, 'w+') and f.write(json.dumps(data)): creates or truncates
save_article_data(d, data, n) ==
    (file_name(n) :> json_dumps(data)) @@ d

\* os.listdir('.'): the entries in arbitrary order
listdir(d) ==
    {order \in [1..Cardinality(DOMAIN d) -> DOMAIN d] :
        \A i, j \in 1..Cardinality(DOMAIN d) : order[i] = order[j] => i = j}

Bytes(text) == <<"bytes", text>>

\* [json.loads(open(x, 'r').read()) for x in files], from its i-th file on
RECURSIVE load_files(_, _, _)
load_files(d, files, i) ==
    IF i > Len(files) THEN <<>>
    ELSE <<json_loads(d[files[i]])>> \o load_files(d, files, i + 1)

\* json.dumps(data).encode('utf-8'), unless a json.loads raised
export(loaded) ==
    IF \E i \in 1..Len(loaded) : loaded[i].raised THEN Raised
    ELSE Returned(Bytes(json_dumps(List([i \in 1..Len(loaded) |-> loaded[i].value]))))

\* get_articles_data reading every file, whatever its name
get_articles_data_unfiltered(d, listing) ==
    CHOOSE r \in {export(loaded) : loaded \in {load_files(d, listing, 1)}} : TRUE

\* get_articles_data() when os.listdir returned `listing`
get_articles_data(d, listing) ==
    CHOOSE r \in {export(loaded) :
                    loaded \in {load_files(d, files, 1) :
                                  files \in {SelectSeq(listing, LAMBDA x : substring(NameStem, x))}}} :
        TRUE

----------------------------------------------------------------------------
(* One evaluation of the script, top to bottom, on the current widget      *)
(* values.  Streamlit runs it again on every user interaction.             *)

IsStr(v) == tag(v) = "str"
IsDict(v) == tag(v) = "dict"

\* build_qa_prompt(article_data['article_text'], 10) raises TypeError when
\* article_data cannot be indexed by a str or the text is not a str
qa_prompt_raises(article_data) ==
    ~IsDict(article_data) \/ ~IsStr(DictGet(article_data, KeyArticleText))

KeyCompleteness == <<"completeness_keywords">>
KeyRelevant == <<"relevant_sensitive_categories">>

\* {**qa_pair, 'completeness_keywords': '', 'relevant_sensitive_categories': ''}
with_extra_cols(qa_pair) ==
    Dict(DictSet(DictSet(val(qa_pair), KeyCompleteness, Str(<<>>)), KeyRelevant, Str(<<>>)))

\* the list comprehension raises TypeError on an element that is no mapping
extra_cols_raises(qas) == \E i \in 1..Len(val(qas)) : ~IsDict(val(qas)[i])

qas_with_extra_cols(qas) == List([i \in 1..Len(val(qas)) |-> with_extra_cols(val(qas)[i])])

\* what data_editor(qas_with_extra_cols) returns: the table, with the two
\* extra columns filled in once the user has annotated the rows
edited_table(table, filled) ==
    IF ~filled THEN table
    ELSE List([i \in 1..Len(val(table)) |->
                 Dict(DictSet(DictSet(val(val(table)[i]), KeyCompleteness, Str(<<"kw">>)),
                              KeyRelevant, Str(<<"C1">>)))])

\* the dict handed to save_article_data
annotated_record(article_data, edited_qas, qas, meta, now) ==
    Dict(<< <<<<"article_data">>, article_data>>,
            <<<<"edited_qas">>, edited_qas>>,
            <<<<"qas">>, qas>>,
            <<<<"metadata">>, Dict(DictSet(val(meta), <<"created_at">>, now))>> >>)

\* time(): the samples of the clock the model draws from
time_samples == {Num(1700000000)}

Start == 0
TopicEntered == 1
CategoriesValid == 2
ArticleDataValid == 3
QADataValid == 4
Annotating == 5
MetadataValid == 6
Saved == 7

View(rendered, errors, raised, stage, download) ==
    [rendered |-> rendered, errors |-> errors, raised |-> raised, stage |-> stage,
     download |-> download, saved |-> FALSE]

\* The script from line 155 on, given what get_articles_data (download) and
\* the four validators (c, a, q, m) do on the widget values `in`; n is what
\* random.randint returns and now what time() returns.  The result is the
\* view and the directory after the run.
run_script(in, d, download, c, a, q, m, n, now) ==
    LET shown0 == {"topic_input"}
        shown1 == shown0 \cup {"download_button"}
        shown2 == shown1 \cup {"categories_input"}
        shown3 == shown2 \cup {"article_prompt", "article_input"}
        shown4 == shown3 \cup {"qa_prompt", "qa_input"}
        shown5 == shown4 \cup {"sensitive_index", "annotation_table", "metadata_form"}
        shown6 == shown5 \cup {"submit_button"}
        keep(v) == [view |-> v, dir |-> d]
    IN
    IF download.raised THEN keep(View(shown0, <<>>, TRUE, Start, download))
    ELSE IF ~truthy(in.topic) THEN keep(View(shown1, <<>>, FALSE, Start, download))
    ELSE IF ~truthy(c.ret) THEN keep(View(shown2, c.errors, FALSE, TopicEntered, download))
    ELSE IF a.raised THEN keep(View(shown3, <<>>, TRUE, CategoriesValid, download))
    ELSE IF ~truthy(a.ret) THEN keep(View(shown3, a.errors, FALSE, CategoriesValid, download))
    ELSE IF qa_prompt_raises(a.ret) THEN
        keep(View(shown3, <<>>, TRUE, ArticleDataValid, download))
    ELSE IF q.raised THEN keep(View(shown4, <<>>, TRUE, ArticleDataValid, download))
    ELSE IF ~truthy(q.ret) THEN keep(View(shown4, q.errors, FALSE, ArticleDataValid, download))
    ELSE IF extra_cols_raises(q.ret) THEN
        keep(View(shown4 \cup {"sensitive_index"}, <<>>, TRUE, QADataValid, download))
    ELSE IF ~truthy(m.ret) THEN keep(View(shown5, m.errors, FALSE, Annotating, download))
    ELSE IF ~in.pressed THEN keep(View(shown6, <<>>, FALSE, MetadataValid, download))
    ELSE
        LET edited_qas == edited_table(qas_with_extra_cols(q.ret), in.annotated)
            data == annotated_record(a.ret, edited_qas, q.ret, m.ret, now)
        IN [view |-> [View(shown6, <<>>, FALSE, Saved, download) EXCEPT !.saved = TRUE],
            dir |-> save_article_data(d, data, n)]

\* the script without the `if check_categories(categories):` gate
Evaluate_ungated(in, d, listing, n, now) ==
    CHOOSE r \in {run_script(in, d, download, Returned(PyTrue), a, q, m, n, now) :
                    download \in {get_articles_data(d, listing)},
                    a \in {check_article_data(in.raw1)},
                    q \in {check_qa_data(in.raw2)},
                    m \in {check_metadata(in.metadata)}} : TRUE

\* one evaluation of the script on the widget values `in` in directory d,
\* when os.listdir returns `listing`
Evaluate(in, d, listing, n, now) ==
    CHOOSE r \in {run_script(in, d, download, c, a, q, m, n, now) :
                    download \in {get_articles_data(d, listing)},
                    c \in {check_categories(in.categories)},
                    a \in {check_article_data(in.raw1)},
                    q \in {check_qa_data(in.raw2)},
                    m \in {check_metadata(in.metadata)}} : TRUE

----------------------------------------------------------------------------
(* Bounded inputs *)

MaxLabels == 8      \* distinct category labels a list is built from
MaxNoise == 2       \* blank, padded or duplicate rows added to it
MaxPairs == 2       \* elements of a pasted Q&A list
MaxKeys == 3        \* members of a pasted article object

Label(i) == <<"C", ToString(i)>>

\* data_editor(['Names of ...'], num_rows='dynamic') before any edit
DefaultCategories == <<Str(<<"Names of ...">>)>>

NoiseRows ==
    { None, Str(<<>>), Str(<<" ">>), Str(<<" ", " ">>),
      Str(Label(1)), Str(<<" ">> \o Label(1)), Str(Label(1) \o <<" ", " ">>),
      Str(<<" ">> \o Label(2) \o <<" ">>), Str(<<"C", " ", "1">>) }

BaseRows(k) == [i \in 1..k |-> Str(Label(i))]

InsertRow(rows, pos, e) == SubSeq(rows, 1, pos) \o <<e>> \o SubSeq(rows, pos + 1, Len(rows))

RECURSIVE WithNoise(_, _)
WithNoise(rows, m) ==
    IF m = 0 THEN {rows}
    ELSE LET less == WithNoise(rows, m - 1) IN
         less \cup {InsertRow(t, pos, e) : t \in less, pos \in {0, Len(rows)}, e \in NoiseRows}

CategoryLists ==
    {DefaultCategories} \cup UNION {WithNoise(BaseRows(k), MaxNoise) : k \in 0..MaxLabels}

KeyExtra == <<"extra">>

MemberValues == {Str(<<"some", " ", "text">>), Num(1), Dict(<<>>)}

\* objects with up to MaxKeys distinct keys, in any order
RECURSIVE ObjectsOver(_, _)
ObjectsOver(keys, n) ==
    IF n = 0 THEN {<<>>}
    ELSE LET less == ObjectsOver(keys, n - 1) IN
         less \cup {Append(ms, <<k, v>>) :
                      ms \in {x \in less : Len(x) = n - 1}, k \in keys, v \in MemberValues}

DistinctKeys(ms) == \A i, j \in 1..Len(ms) : ms[i][1] = ms[j][1] => i = j

ArticleObjects ==
    {Dict(ms) : ms \in {x \in ObjectsOver({KeyArticleText, KeyMapping, KeyExtra}, MaxKeys) :
                          DistinctKeys(x)}}

QAElements ==
    { Dict(<<>>),
      Dict(<<<<KeyQuestion, Str(<<"Q1">>)>>>>),
      Dict(<<<<KeyAnswer, Str(<<"A1">>)>>>>),
      Dict(<<<<KeyQuestion, Str(<<"Q1">>)>>, <<KeyAnswer, Str(<<"A1">>)>>>>),
      Dict(<<<<KeyAnswer, Num(1)>>, <<KeyExtra, None>>, <<KeyQuestion, None>>>>),
      Str(<<"x">>),
      Str(KeyQuestion \o <<" ">> \o KeyAnswer),
      List(<<Str(KeyQuestion), Str(KeyAnswer)>>),
      List(<<>>),
      None, PyTrue, Num(0) }

\* values with a float that is no finite number in them
NonFiniteValues ==
    { Float("nan"), Float("inf"), Float("-inf"),
      List(<<Float("inf"), Float("-inf")>>),
      List(<<Float("nan")>>),
      List(<<Dict(<<<<KeyQuestion, Float("nan")>>, <<KeyAnswer, Str(<<"A1">>)>>>>)>>),
      Dict(<<<<KeyExtra, Float("nan")>>>>),
      Dict(<<<<KeyArticleText, Float("nan")>>, <<KeyMapping, Dict(<<>>)>>>>),
      Dict(<<<<KeyArticleText, Str(<<"x">>)>>, <<KeyMapping, Float("nan")>>>>) }

RECURSIVE ListsOf(_, _)
ListsOf(elems, n) ==
    IF n = 0 THEN {<<>>}
    ELSE LET less == ListsOf(elems, n - 1) IN
         less \cup {Append(xs, e) : xs \in {x \in less : Len(x) = n - 1}, e \in elems}

QALists == {List(xs) : xs \in ListsOf(QAElements, MaxPairs)}

Scalars ==
    { None, PyTrue, PyFalse, Num(0), Num(1), Str(<<>>), Str(<<"x">>),
      Str(KeyArticleText \o <<" and ">> \o KeyMapping) }

JsonValues ==
    Scalars \cup ArticleObjects \cup QALists
    \cup {List(<<Str(KeyArticleText), Str(KeyMapping)>>), List(<<Str(KeyArticleText)>>)}

ValidTexts == {json_dumps(v) : v \in JsonValues}

\* accepted by json.loads though they are no JSON: NaN, Infinity, -Infinity
NonFiniteTexts == {json_dumps(v) : v \in NonFiniteValues}

\* texts json.loads rejects: truncated, with trailing data, with a trailing
\* comma, a member without a value, a key that is no string, a bare or
\* single-quoted word
BrokenTexts ==
    {SubSeq(t, 1, Len(t) - 1) : t \in ValidTexts \cup NonFiniteTexts}
    \cup {t \o <<Punct("}")>> : t \in ValidTexts \cup NonFiniteTexts}
    \cup { <<Word("None")>>, <<Word("'article_text'")>>,
           <<Word("nan")>>, <<Word("-NaN")>>, <<Word("+Infinity")>>, <<Word("Inf")>>,
           <<Punct("["), NumberTok(1), Punct(","), Punct("]")>>,
           <<Punct("{"), StringTok(KeyArticleText), Punct("}")>>,
           <<Punct("{"), NumberTok(1), Punct(":"), NumberTok(1), Punct("}")>>,
           <<StringTok(KeyArticleText), Punct(":"), NumberTok(1)>> }

\* accepted by json.loads though never written by json.dumps: a repeated key
RepeatedKeyTexts ==
    { <<Punct("{"), StringTok(KeyArticleText), Punct(":"), NumberTok(0), Punct(","),
        StringTok(KeyMapping), Punct(":"), NumberTok(0), Punct(","),
        StringTok(KeyArticleText), Punct(":"), NumberTok(1), Punct("}")>> }

RawTexts == ValidTexts \cup BrokenTexts \cup RepeatedKeyTexts \cup NonFiniteTexts

MetadataInputs ==
    { Dict(<<<<KeyLLM, Str(<<>>)>>>>),
      Dict(<<<<KeyLLM, None>>>>),
      Dict(<<>>),
      Dict(<<<<KeyLLM, Str(<<"gpt-x">>)>>>>),
      Dict(<<<<KeyLLM, Str(<<"gpt-x">>)>>, <<<<"temperature">>, Str(<<"0.7">>)>>>>) }

----------------------------------------------------------------------------
(* The validators applied to every bounded input *)

NoOutcome == [raised |-> FALSE, ret |-> None, errors |-> <<>>]

InitInputs ==
    /\ topic = Str(<<>>)
    /\ categories = DefaultCategories
    /\ raw1 = <<>>
    /\ raw2 = <<>>
    /\ annotated = FALSE
    /\ metadata = Dict(<<<<KeyLLM, Str(<<>>)>>>>)   \* data_editor({'LLM': ''})
    /\ pressed = FALSE

InitValidators ==
    /\ call = "none" /\ arg = <<>> /\ out = NoOutcome
    /\ InitInputs
    /\ view = <<>> /\ dir = <<>> /\ written = <<>>

InputsUnchanged == UNCHANGED <<topic, categories, raw1, raw2, annotated, metadata, pressed>>

CallCheckCategories ==
    /\ call = "none"
    /\ \E cs \in CategoryLists :
         /\ call' = "check_categories" /\ arg' = cs /\ out' = check_categories(cs)
    /\ InputsUnchanged /\ UNCHANGED <<view, dir, written>>

CallCheckArticleData ==
    /\ call = "none"
    /\ \E raw \in RawTexts :
         /\ call' = "check_article_data" /\ arg' = raw /\ out' = check_article_data(raw)
    /\ InputsUnchanged /\ UNCHANGED <<view, dir, written>>

CallCheckQAData ==
    /\ call = "none"
    /\ \E raw \in RawTexts :
         /\ call' = "check_qa_data" /\ arg' = raw /\ out' = check_qa_data(raw)
    /\ InputsUnchanged /\ UNCHANGED <<view, dir, written>>

CallCheckMetadata ==
    /\ call = "none"
    /\ \E data \in MetadataInputs :
         /\ call' = "check_metadata" /\ arg' = data /\ out' = check_metadata(data)
    /\ InputsUnchanged /\ UNCHANGED <<view, dir, written>>

NextValidators ==
    \/ CallCheckCategories
    \/ CallCheckArticleData
    \/ CallCheckQAData
    \/ CallCheckMetadata

SpecValidators == InitValidators /\ [][NextValidators]_vars

----------------------------------------------------------------------------
(* The form flow: every user interaction changes one widget value and      *)
(* triggers one evaluation of the script.                                  *)

MaxSubmits == 1     \* presses of Submit in a run of the flow
MaxDraws == 1       \* outcomes of the random draw sampled next to the largest

\* the outcomes of random.randint(0, 10000) the flow and store runs draw from
DrawSamples == (RandLo..(RandLo + MaxDraws - 1)) \cup {RandHi}

Topics == {Str(<<>>), Str(<<"a medical record">>)}

FlowCategoryLists ==
    { DefaultCategories, BaseRows(3),
      <<None>> \o BaseRows(4) \o <<Str(<<" ">> \o Label(1))>>,
      BaseRows(8) }

GoodArticle ==
    Dict(<< <<KeyArticleText, Str(<<"John", " ", "was", " ", "ill">>)>>,
            <<KeyMapping, Dict(<<<<Label(1), List(<<Str(<<"John">>)>>)>>>>)>> >>)

FlowArticleTexts ==
    { <<>>,
      <<Punct("{")>>,
      json_dumps(Dict(<<>>)),
      json_dumps(Dict(<<<<KeyArticleText, Str(<<"x">>)>>>>)),
      json_dumps(GoodArticle),
      json_dumps(Num(1)),
      json_dumps(Float("nan")),
      json_dumps(Dict(<<<<KeyArticleText, Num(1)>>, <<KeyMapping, Dict(<<>>)>>>>)),
      json_dumps(Str(KeyArticleText \o <<" ">> \o KeyMapping)),
      json_dumps(List(<<Str(KeyArticleText), Str(KeyMapping)>>)) }

GoodPair == Dict(<<<<KeyQuestion, Str(<<"Q1">>)>>, <<KeyAnswer, Str(<<"A1">>)>>>>)

FlowQATexts ==
    { <<>>,
      json_dumps(List(<<>>)),
      json_dumps(Dict(<<>>)),
      json_dumps(List(<<Dict(<<>>)>>)),
      json_dumps(List(<<GoodPair>>)),
      json_dumps(List(<<None>>)),
      json_dumps(Float("inf")),
      json_dumps(List(<<Str(KeyQuestion \o <<" ">> \o KeyAnswer)>>)),
      json_dumps(List(<<GoodPair, Dict(<<<<KeyQuestion, Str(<<"Q2">>)>>>>)>>)) }

FlowMetadata ==
    { Dict(<<<<KeyLLM, Str(<<>>)>>>>),
      Dict(<<>>),
      Dict(<<<<KeyLLM, None>>>>),
      Dict(<<<<KeyLLM, Str(<<"gpt-x">>)>>>>) }

Inputs ==
    [topic |-> topic, categories |-> categories, raw1 |-> raw1, raw2 |-> raw2,
     annotated |-> annotated, metadata |-> metadata, pressed |-> pressed]

DefaultMetadata == Dict(<<<<KeyLLM, Str(<<>>)>>>>)

\* the value a widget holds after a run: Streamlit keeps the state of a
\* widget the run rendered and discards the state of one it did not, which
\* then shows its default again
kept(shown, widget, value, default) == IF widget \in shown THEN value ELSE default

\* the script runs on the widget values `in`
Rerun(in) ==
    \E listing \in listdir(dir), now \in time_samples,
       n \in (IF in.pressed THEN DrawSamples ELSE {RandLo}) :   \* drawn only on a save
      \E r \in {Evaluate(in, dir, listing, n, now)} :
        /\ topic' = kept(r.view.rendered, "topic_input", in.topic, Str(<<>>))
        /\ categories' = kept(r.view.rendered, "categories_input", in.categories, DefaultCategories)
        /\ raw1' = kept(r.view.rendered, "article_input", in.raw1, <<>>)
        /\ raw2' = kept(r.view.rendered, "qa_input", in.raw2, <<>>)
        /\ annotated' = kept(r.view.rendered, "annotation_table", in.annotated, FALSE)
        /\ metadata' = kept(r.view.rendered, "metadata_form", in.metadata, DefaultMetadata)
        /\ pressed' = in.pressed
        /\ view' = r.view
        /\ dir' = r.dir
        /\ written' = IF r.view.saved
                      THEN Append(written, [name |-> file_name(n),
                                            content |-> r.dir[file_name(n)]])
                      ELSE written
        /\ UNCHANGED <<call, arg, out>>

Init ==
    /\ call = "none" /\ arg = <<>> /\ out = NoOutcome
    /\ InitInputs
    /\ dir = <<>> /\ written = <<>>
    /\ view = Evaluate(Inputs, <<>>, <<>>, RandLo, None).view

EnterTopic ==
    /\ "topic_input" \in view.rendered
    /\ \E t \in Topics : Rerun([Inputs EXCEPT !.topic = t, !.pressed = FALSE])

EditCategories ==
    /\ "categories_input" \in view.rendered
    /\ \E cs \in FlowCategoryLists : Rerun([Inputs EXCEPT !.categories = cs, !.pressed = FALSE])

PasteArticleData ==
    /\ "article_input" \in view.rendered
    /\ \E raw \in FlowArticleTexts : Rerun([Inputs EXCEPT !.raw1 = raw, !.pressed = FALSE])

PasteQAData ==
    /\ "qa_input" \in view.rendered
    /\ \E raw \in FlowQATexts :
         Rerun([Inputs EXCEPT !.raw2 = raw, !.pressed = FALSE,
                              \* a table of other rows is another widget
                              !.annotated = IF raw = raw2 THEN annotated ELSE FALSE])

AnnotateTable ==
    /\ "annotation_table" \in view.rendered
    /\ \E b \in BOOLEAN : Rerun([Inputs EXCEPT !.annotated = b, !.pressed = FALSE])

EditMetadata ==
    /\ "metadata_form" \in view.rendered
    /\ \E data \in FlowMetadata : Rerun([Inputs EXCEPT !.metadata = data, !.pressed = FALSE])

PressSubmit ==
    /\ "submit_button" \in view.rendered
    /\ Len(written) < MaxSubmits
    /\ Rerun([Inputs EXCEPT !.pressed = TRUE])

Next ==
    \/ EnterTopic
    \/ EditCategories
    \/ PasteArticleData
    \/ PasteQAData
    \/ AnnotateTable
    \/ EditMetadata
    \/ PressSubmit

Spec == Init /\ [][Next]_vars

----------------------------------------------------------------------------
(* The persistence layer on its own: saves and exports in a directory that *)
(* may hold other files.                                                   *)

MaxSaves == 2       \* calls of save_article_data in a run of the store

GoodMetadata == Dict(<<<<KeyLLM, Str(<<"gpt-x">>)>>>>)

SampleRecords ==
    {annotated_record(GoodArticle,
                      edited_table(qas_with_extra_cols(List(<<GoodPair>>)), filled),
                      List(<<GoodPair>>), GoodMetadata, now) :
        filled \in BOOLEAN, now \in time_samples}

\* files the directory may hold at start: notes whose name contains the
\* stem but which are no JSON, and an earlier download
NotesName == <<"my-">> \o NameStem \o <<"-notes.txt">>
NotesText == <<Word("TODO")>>
DownloadName == <<"data.json">>
DownloadText == json_dumps(List(<<Dict(<<<<KeyExtra, Num(1)>>>>)>>))

InitialDirs ==
    { <<>>,
      (DownloadName :> DownloadText),
      (NotesName :> NotesText),
      (DownloadName :> DownloadText) @@ (NotesName :> NotesText) }

InitStore ==
    /\ call = "none" /\ arg = <<>> /\ out = NoOutcome
    /\ InitInputs
    /\ view = <<>>
    /\ dir \in InitialDirs
    /\ written = <<>>

Save ==
    /\ Len(written) < MaxSaves
    /\ \E data \in SampleRecords, n \in DrawSamples :
         /\ dir' = save_article_data(dir, data, n)
         /\ written' = Append(written, [name |-> file_name(n), content |-> json_dumps(data)])
         /\ call' = "save_article_data" /\ arg' = data /\ out' = Returned(None)
    /\ InputsUnchanged /\ UNCHANGED view

\* an export reads only: a second one in a row reaches nothing new
Export ==
    /\ call # "get_articles_data"
    /\ \E listing \in listdir(dir) :
         /\ call' = "get_articles_data" /\ arg' = listing
         /\ out' = get_articles_data(dir, listing)
    /\ InputsUnchanged /\ UNCHANGED <<view, dir, written>>

NextStore ==
    \/ Save
    \/ Export

SpecStore == InitStore /\ [][NextStore]_vars

\* one save into an empty directory, on every outcome of the random draw
InitNames ==
    /\ call = "none" /\ arg = <<>> /\ out = NoOutcome
    /\ InitInputs
    /\ view = <<>> /\ dir = <<>> /\ written = <<>>

SaveOnce ==
    /\ written = <<>>
    /\ \E data \in SampleRecords, n \in randint(RandLo, RandHi) :
         /\ dir' = save_article_data(dir, data, n)
         /\ written' = Append(written, [name |-> file_name(n), content |-> json_dumps(data)])
         /\ call' = "save_article_data" /\ arg' = data /\ out' = Returned(None)
    /\ InputsUnchanged /\ UNCHANGED view

NextNames == SaveOnce

SpecNames == InitNames /\ [][NextNames]_vars

----------------------------------------------------------------------------
(* Claims about the validators *)

Blank(s) == \A i \in 1..Len(s) : s[i] = " "

\* s without its leading and trailing whitespace, stated by positions
Trimmed(s) ==
    IF Blank(s) THEN <<>>
    ELSE LET solid == {i \in 1..Len(s) : s[i] # " "}
             lo == CHOOSE i \in solid : \A j \in solid : i <= j
             hi == CHOOSE i \in solid : \A j \in solid : j <= i
         IN SubSeq(s, lo, hi)

\* the distinct, trimmed, non-empty entries of a category list
DistinctEntries(cs) ==
    {Trimmed(val(cs[i])) : i \in {j \in 1..Len(cs) : cs[j] # None /\ ~Blank(val(cs[j]))}}

\* C1: check_categories succeeds iff the number n of distinct, trimmed,
\* non-empty entries satisfies 4 <= n <= 7; with n < 4 it fails with the
\* 'at least 4' message and with n > 7 with the 'at most 7' message.
C1_CategoryCount ==
    call = "check_categories" =>
        LET n == Cardinality(DistinctEntries(arg)) IN
        /\ (out = Returned(PyTrue)) <=> (4 <= n /\ n <= 7)
        /\ n < 4 => out = Failed(MsgAtLeast4)
        /\ n > 7 => out = Failed(MsgAtMost7)

\* a list with a blank row and a padded duplicate that is accepted on its 7 labels
C1_Witness ==
    /\ call = "check_categories"
    /\ out = Returned(PyTrue)
    /\ Cardinality(DistinctEntries(arg)) = 7
    /\ \E i, j \in 1..Len(arg) : arg[i] = None /\ arg[j] = Str(<<" ">> \o Label(2) \o <<" ">>)

\* a text of the JSON grammar: one value and nothing after it, with no bare
\* word but null, true and false
IsJSON(raw) ==
    /\ ~json_loads(raw).raised
    /\ \A i \in 1..Len(raw) : ~(raw[i][1] = "word" /\ raw[i][2] \in DOMAIN parse_constant)

\* C6: on every text that is not valid JSON, check_article_data and
\* check_qa_data both show 'You must provide a valid JSON here.' and return
\* False, and neither raises.
C6_InvalidJSONFails ==
    (call \in {"check_article_data", "check_qa_data"} /\ ~IsJSON(arg))
    => out = [raised |-> FALSE, ret |-> PyFalse, errors |-> <<MsgInvalidJSON>>]

KeysOf(v) == {val(v)[i][1] : i \in 1..Len(val(v))}

\* C7: on a text that parses as a JSON object, check_article_data returns
\* the parsed object unchanged (extra keys kept) iff the object has both
\* article_text and sensitive_category_to_instances; without article_text
\* it fails with the article-text message, otherwise without the mapping
\* with the mapping message; the values under the keys are not inspected.
C7_ArticleKeys ==
    call = "check_article_data" =>
        \A p \in {json_loads(arg)} :
            (~p.raised /\ tag(p.value) = "dict") =>
                /\ ({KeyArticleText, KeyMapping} \subseteq KeysOf(p.value))
                     <=> (out = Returned(p.value))
                /\ KeyArticleText \notin KeysOf(p.value) => out = Failed(MsgArticleText)
                /\ (KeyArticleText \in KeysOf(p.value) /\ KeyMapping \notin KeysOf(p.value))
                     => out = Failed(MsgMapping)

\* an object with an extra key and a number as article_text is returned as parsed
C7_Witness ==
    /\ call = "check_article_data"
    /\ \E v \in ArticleObjects :
         /\ arg = json_dumps(v)
         /\ {KeyArticleText, KeyMapping, KeyExtra} \subseteq KeysOf(v)
         /\ DictGet(v, KeyArticleText) = Num(1)
         /\ out = Returned(v)

\* an element has key k: `k in x` is true of it
HasKey(x, k) == ~in_raises(x) /\ contains(x, k)

\* C8: on a text that parses as JSON, check_qa_data fails with the 'list of
\* Q&A pairs' message when the value is not a list, fails with the 'Every
\* Q&A pair must have...' message when some element of the list lacks
\* question_text or answer_text, and otherwise returns the parsed list; the
\* three failure messages are pairwise distinct.
C8_QAList ==
    (call = "check_qa_data" /\ ~json_loads(arg).raised) =>
        LET v == json_loads(arg).value IN
        /\ tag(v) # "list" => out = Failed(MsgNotAList)
        /\ (tag(v) = "list" /\ \E i \in 1..Len(val(v)) :
                ~(HasKey(val(v)[i], KeyQuestion) /\ HasKey(val(v)[i], KeyAnswer)))
              => out = Failed(MsgQAPair)
        /\ (tag(v) = "list" /\ \A i \in 1..Len(val(v)) :
                HasKey(val(v)[i], KeyQuestion) /\ HasKey(val(v)[i], KeyAnswer))
              => out = Returned(v)
        /\ Cardinality({MsgInvalidJSON, MsgNotAList, MsgQAPair}) = 3

----------------------------------------------------------------------------
(* Claims about the persistence layer *)

RecordFiles(d) == {f \in DOMAIN d : substring(NameStem, f)}

\* C4: after any sequence of Saves every record saved earlier is still in
\* the directory with exactly the content it was written with, and the
\* directory holds one file per record saved.
C4_SavesKept ==
    /\ \A i \in 1..Len(written) :
         written[i].name \in DOMAIN dir /\ dir[written[i].name] = written[i].content
    /\ Cardinality({f \in DOMAIN dir : \E i \in 1..Len(written) : written[i].name = f})
         = Len(written)

DigitValue(a) == CHOOSE k \in 0..9 : Digits[k + 1] = a

\* int(s) of a run of digit atoms
RECURSIVE int_of(_)
int_of(s) == IF s = <<>> THEN 0 ELSE 10 * int_of(SubSeq(s, 1, Len(s) - 1)) + DigitValue(s[Len(s)])

\* name is annotated-synthetic-article<N>.json for the decimal numeral of an N in lo..hi
IsRecordName(name, lo, hi) ==
    /\ Len(name) >= 3
    /\ name[1] = NameStem[1]
    /\ name[Len(name)] = NameSuffix[1]
    /\ LET numeral == SubSeq(name, 2, Len(name) - 1) IN
       /\ \A i \in 1..Len(numeral) : \E k \in 1..10 : Digits[k] = numeral[i]
       /\ (Len(numeral) > 1 => numeral[1] # "0")
       /\ lo <= int_of(numeral) /\ int_of(numeral) <= hi

\* C5 as stated: every file written by Save is named
\* annotated-synthetic-article<N>.json with 0 <= N < 10000.
C5_NameBelow10000 ==
    \A i \in 1..Len(written) :
        written[i].name \in DOMAIN dir /\ IsRecordName(written[i].name, 0, 9999)

\* C5, amended: every file written by Save is named
\* annotated-synthetic-article<N>.json with 0 <= N <= 10000, the upper
\* bound included, on every outcome of the random draw.
C5_NameUpTo10000 ==
    \A i \in 1..Len(written) :
        written[i].name \in DOMAIN dir /\ IsRecordName(written[i].name, 0, 10000)

\* a Save has written annotated-synthetic-article10000.json
C5_Witness ==
    /\ call = "save_article_data"
    /\ (NameStem \o <<"1", "0", "0", "0", "0">> \o NameSuffix) \in DOMAIN dir
    /\ Len(written) = 1

\* the JSON array an export returned, parsed back
Exported == json_loads(val(out.ret)).value

\* C9: when the directory holds K record files (files whose name contains
\* 'annotated-synthetic-article'), all valid, get_articles_data returns a
\* JSON array of exactly K elements, each the parsed content of one of
\* those files, and every other file contributes no element.
C9_ExportAll ==
    (call = "get_articles_data"
       /\ \A f \in RecordFiles(dir) : ~json_loads(dir[f]).raised)
    => /\ ~out.raised /\ tag(out.ret) = "bytes"
       /\ ~json_loads(val(out.ret)).raised
       /\ tag(Exported) = "list"
       /\ Len(val(Exported)) = Cardinality(RecordFiles(dir))
       /\ \A f \in RecordFiles(dir) :
            \E i \in 1..Len(val(Exported)) : val(Exported)[i] = json_loads(dir[f]).value
       /\ \A i \in 1..Len(val(Exported)) :
            \E f \in RecordFiles(dir) : val(Exported)[i] = json_loads(dir[f]).value

\* an export of two saved records from a directory that also holds an
\* earlier download
C9_Witness ==
    /\ call = "get_articles_data"
    /\ ~out.raised
    /\ Cardinality(RecordFiles(dir)) = 2
    /\ DownloadName \in DOMAIN dir
    /\ Len(val(Exported)) = 2
    /\ val(Exported)[1] # val(Exported)[2]

----------------------------------------------------------------------------
(* Claims about the flow *)

Succeeded(o) == ~o.raised /\ o.ret # PyFalse

TopicGiven == truthy(topic)
CategoriesPass == Succeeded(check_categories(categories))
ArticlePass == Succeeded(check_article_data(raw1))
QAPass == Succeeded(check_qa_data(raw2))
MetadataPass == Succeeded(check_metadata(metadata))

Shown(widgets) == widgets \cap view.rendered # {}

\* C2: in every evaluation the content of each later step is rendered only
\* if the topic is non-empty and every earlier validator succeeded on the
\* current inputs; save_article_data is invoked only when the topic is
\* non-empty, the four validators succeed and Submit is pressed.
C2_GatedRendering ==
    /\ Shown({"article_prompt", "article_input"}) => TopicGiven /\ CategoriesPass
    /\ Shown({"qa_prompt", "qa_input"}) => TopicGiven /\ CategoriesPass /\ ArticlePass
    /\ Shown({"annotation_table", "metadata_form"})
         => TopicGiven /\ CategoriesPass /\ ArticlePass /\ QAPass
    /\ Shown({"submit_button"})
         => TopicGiven /\ CategoriesPass /\ ArticlePass /\ QAPass /\ MetadataPass
    /\ view.saved
         => TopicGiven /\ CategoriesPass /\ ArticlePass /\ QAPass /\ MetadataPass /\ pressed
    /\ Len(written) > 0 => \E i \in 1..Len(written) : written[i].name \in DOMAIN dir

\* the evaluation that saved a record, all steps rendered
C2_Witness ==
    /\ view.saved /\ pressed
    /\ view.stage = Saved
    /\ "submit_button" \in view.rendered
    /\ Len(written) = 1 /\ written[1].name \in DOMAIN dir

\* C3: at each of the four validator-gated steps, whenever the step's input
\* is shown and the flow does not advance past that step, that step's
\* validator has shown a specific error message in the same evaluation
\* (stated for the evaluations that end without an exception).
C3_HaltShowsError ==
    ~view.raised =>
        /\ ("categories_input" \in view.rendered /\ "article_input" \notin view.rendered)
             => view.errors \in {<<MsgAtLeast4>>, <<MsgAtMost7>>}
        /\ ("article_input" \in view.rendered /\ "qa_input" \notin view.rendered)
             => view.errors \in {<<MsgInvalidJSON>>, <<MsgArticleText>>, <<MsgMapping>>}
        /\ ("qa_input" \in view.rendered /\ "metadata_form" \notin view.rendered)
             => view.errors \in {<<MsgInvalidJSON>>, <<MsgNotAList>>, <<MsgQAPair>>}
        /\ ("metadata_form" \in view.rendered /\ "submit_button" \notin view.rendered)
             => view.errors = <<MsgLLM>>

\* the furthest of the states the claim lists (SAVED lasts one evaluation)
Reached(stage) == IF stage > MetadataValid THEN MetadataValid ELSE stage

AtLeast(stage, floor) == Reached(stage) >= (IF Reached(view.stage) < floor THEN Reached(view.stage) ELSE floor)

\* C10 as stated: across successive evaluations the state reached never
\* moves backward.
C10_NeverBackward == [][Reached(view'.stage) >= Reached(view.stage)]_vars

\* C10, amended: an interaction that leaves the inputs of the first k steps
\* as they were does not move the flow behind the state those k steps had
\* reached; the flow moves backward only as far as the step whose input the
\* interaction changed.
C10_BackOnlyToEditedStep ==
    [][ /\ topic' = topic => AtLeast(view'.stage, TopicEntered)
        /\ (topic' = topic /\ categories' = categories)
             => AtLeast(view'.stage, CategoriesValid)
        /\ (topic' = topic /\ categories' = categories /\ raw1' = raw1)
             => AtLeast(view'.stage, ArticleDataValid)
        /\ (topic' = topic /\ categories' = categories /\ raw1' = raw1 /\ raw2' = raw2)
             => AtLeast(view'.stage, Annotating)
        /\ (topic' = topic /\ categories' = categories /\ raw1' = raw1 /\ raw2' = raw2
              /\ metadata' = metadata)
             => AtLeast(view'.stage, MetadataValid)
      ]_vars

\* Q&A data pasted again and rejected: the flow is back at ARTICLE_DATA_VALID
\* after a record had been saved
C10_Witness ==
    /\ view.stage = ArticleDataValid
    /\ view.errors = <<MsgNotAList>>
    /\ Len(written) = 1

====
